---- MODULE Spec2Model ----
(***************************************************************************)
(* Triple-barrier labeling (src/src/labeling.py) and the signal engine     *)
(* (src/src/signal_engine.py) of the forex ML pipeline, as driven by       *)
(* run_pipeline.py and generate_signals.py.                                *)
(*                                                                         *)
(* Number encoding.  Prices and ATR are integers (price ticks).  ATR       *)
(* multiples, vol_ratio and the horizon factors have one decimal in the    *)
(* source and are kept in tenths (1.8 -> 18, 0.8 -> 8), probabilities and  *)
(* the confidence threshold in hundredths (0.7 -> 70).  A barrier          *)
(* entry + mult * atr is therefore kept in tenths of a tick,               *)
(* 10 * entry + mult10 * atr, and a bar's high/low is multiplied by 10     *)
(* before it is compared with a barrier.  The float values NaN, +inf and   *)
(* -inf are three reserved integers outside the range of every price;      *)
(* all arithmetic and comparisons on values that may be one of them go     *)
(* through FMul / FAdd / FSub / FGe / FLe, which follow IEEE-754.          *)
(***************************************************************************)
EXTENDS Integers, Sequences, FiniteSets, TLC

VARIABLES
    argv,                  \* the script that was started
    cfg,                   \* src/config.py: MIN_HORIZON_DAYS, MAX_HORIZON_DAYS, CONFIDENCE_THRESHOLD
    df,                    \* the symbol's DataFrame: rows 0 .. n-1
    pc,                    \* position in the code
    labels,                \* labeling.py: labels (np.zeros(n)), then df["label"]
    i, j,                  \* labeling.py: loop indices
    tp_mult, sl_mult, horizon,  \* labeling.py: per-entry barrier parameters
    tp_long, sl_long, tp_short, sl_short,
    start, end,            \* labeling.py: forward-looking window [start, end)
    hit_long, hit_short,   \* labeling.py: None or (bar_idx, "tp" | "sl")
    reads,                 \* history: <<i, j>> for every high[j]/low[j] the scan of entry i read
    given,                 \* history: the rows of the symbol being labeled, as read from the file
    others,                \* labeling.py: the groups of df.groupby("symbol") still to label
    out,                   \* labeling.py: the labeled frames the groupby apply has collected
    confidence_threshold,  \* signal_engine.py: generate_signals parameter
    use_latest_only,       \* signal_engine.py: generate_signals parameter
    rows,                  \* signal_engine.py: symbol_df.index still to visit
    prob, direction, confidence,  \* signal_engine.py: locals of the row loop
    signals,               \* signal_engine.py: signals; backtest.py: signals
    probs,                 \* backtest.py: probs, model.predict_proba(X)[:, 1]
    trades,                \* backtest.py: trades
    args,                  \* the parameters of the call that was started
    env,                   \* the world outside the process: environment variables, files
    log,                   \* history: the effects on the outside world, in order
    ret                    \* <<>>, then the value returned or <<exit code>>

vars == <<argv, cfg, df, pc, labels, i, j, tp_mult, sl_mult, horizon, tp_long, sl_long,
          tp_short, sl_short, start, end, hit_long, hit_short, reads, given, others,
          out,
          confidence_threshold, use_latest_only, rows, prob, direction, confidence,
          signals, probs, trades, args, env, log, ret>>

labelLocals == <<tp_mult, sl_mult, horizon, tp_long, sl_long, tp_short, sl_short, start, end>>
signalVars == <<confidence_threshold, use_latest_only, rows, prob, direction, confidence,
                signals>>
sideVars == <<probs, trades, args, env, log, ret>>

----------------------------------------------------------------------------
(* Bounds of the model *)

\* longest series of bars
MaxBars == 3

\* longest series of bars handed to a stand-alone generate_signals.py run
MaxSignalBars == 2

\* longest series of bars of one symbol handed to a stand-alone build_labels.py run
MaxExampleBars == 3

----------------------------------------------------------------------------
(* Floats *)

NaN == -999999
PosInf == 999999
NegInf == -999998

IsNaN(x) == x = NaN
IsInf(x) == x \in {PosInf, NegInf}
IsFinite(x) == ~IsNaN(x) /\ ~IsInf(x)

FNeg(x) ==
    IF IsNaN(x) THEN NaN
    ELSE IF x = PosInf THEN NegInf
    ELSE IF x = NegInf THEN PosInf
    ELSE 0 - x

\* m * x for a finite multiple m
FMul(m, x) ==
    IF IsNaN(x) THEN NaN
    ELSE IF IsInf(x) THEN (IF m = 0 THEN NaN ELSE IF m > 0 THEN x ELSE FNeg(x))
    ELSE m * x

\* e + x for a finite e
FAdd(e, x) == IF IsFinite(x) THEN e + x ELSE x

\* e - x for a finite e
FSub(e, x) == FAdd(e, FNeg(x))

\* x >= y and x <= y for a finite x; every comparison with NaN is False
FGe(x, y) == IF IsNaN(y) THEN FALSE ELSE IF y = PosInf THEN FALSE ELSE IF y = NegInf THEN TRUE ELSE x >= y
FLe(x, y) == IF IsNaN(y) THEN FALSE ELSE IF y = PosInf THEN TRUE ELSE IF y = NegInf THEN FALSE ELSE x <= y

----------------------------------------------------------------------------
(* src/config.py *)

TP_ATR_MULT == 18
SL_ATR_MULT == 10
MIN_HORIZON_DAYS == 3
MAX_HORIZON_DAYS == 10
CONFIDENCE_THRESHOLD == 70

DefaultConfig ==
    [tp_atr_mult |-> TP_ATR_MULT, sl_atr_mult |-> SL_ATR_MULT,
     min_horizon |-> MIN_HORIZON_DAYS, max_horizon |-> MAX_HORIZON_DAYS,
     confidence_threshold |-> CONFIDENCE_THRESHOLD]

\* config.py as shipped, a short-horizon edit of it, and an edit with
\* min_horizon > max_horizon (config.py validates nothing on import)
Configs ==
    {DefaultConfig,
     [DefaultConfig EXCEPT !.min_horizon = 1, !.max_horizon = 3],
     [DefaultConfig EXCEPT !.min_horizon = 5, !.max_horizon = 3]}

\* every MAX_HORIZON_DAYS from 1 to 12 with MIN_HORIZON_DAYS 1, 3 or 5
HorizonGrid == 1 .. 12
FloorGrid == {1, 3, 5}
HorizonConfigs ==
    {[DefaultConfig EXCEPT !.max_horizon = H, !.min_horizon = m] :
        H \in HorizonGrid, m \in FloorGrid}

\* config.py as shipped, and an edit with the take-profit (0.5 x ATR) nearer
\* than the stop-loss (1.0 x ATR)
LabelConfigs ==
    {DefaultConfig, [DefaultConfig EXCEPT !.tp_atr_mult = 5]}

----------------------------------------------------------------------------
(* Input bars *)

Bar(c, h, l, a, v, t) ==
    [close |-> c, high |-> h, low |-> l, atr |-> a, vol_ratio |-> v, trend_strength |-> t]

\* high/low shapes around a close of 100 (with ATR 10 the default barriers are
\* 118 / 90 for long and 82 / 110 for short), regime normal
ShapeBars ==
    {Bar(100, hl[1], hl[2], 10, 10, 20) :
        hl \in {<<100, 100>>, <<118, 100>>, <<100, 82>>, <<118, 82>>,
                <<110, 100>>, <<100, 90>>}}

\* regimes of an entry bar: ATR valid / NaN / 0 / negative / infinite,
\* vol_ratio low / normal / high / extreme / NaN, trend weak / strong / NaN
RegimeBars ==
    {Bar(100, 100, 100, r[1], r[2], r[3]) :
        r \in {<<10, 7, 35>>, <<10, 7, 20>>, <<10, 13, 20>>, <<10, 16, 20>>,
               <<10, NaN, NaN>>, <<10, NaN, 35>>, <<10, 7, NaN>>,
               <<NaN, 10, 20>>, <<0, 10, 20>>, <<PosInf, 10, 20>>}}
    \cup {Bar(80, 80, 80, 0 - 10, 10, 20)}

BarSet == ShapeBars \cup RegimeBars

SignalBarSet ==
    {Bar(100, 100, 100, r[1], r[2], r[3]) :
        r \in {<<10, 10, 20>>, <<10, 7, 35>>, <<NaN, 10, 20>>, <<0, 10, 20>>}}
    \cup {Bar(80, 80, 80, 0 - 10, 10, 20)}

\* bars of a symbol quoted in pips (0.0001): close 1.1000 and ATR 0.0050, so
\* that the default barriers are 1.1090 / 1.0950 for long and 1.0910 / 1.1050
\* for short; high/low flat, inside every barrier, at the short stop-loss,
\* beyond the long take-profit, and beyond both take-profits
ExampleBars ==
    {Bar(11000, hl[1], hl[2], 50, 10, 20) :
        hl \in {<<11000, 11000>>, <<11030, 11000>>, <<11060, 11000>>,
                <<11095, 11000>>, <<11095, 10910>>}}

\* regime values on both sides of every threshold of the parameter selection
TrendGrid == {NaN, 0, 29, 30, 31, 35}
VolRatioGrid == {NaN, 0, 7, 8, 9, 10, 12, 13, 15, 16, 20}
RegimeGridBars ==
    {Bar(100, 100, 100, 10, v, t) : v \in VolRatioGrid, t \in TrendGrid}

\* model.predict_proba(X)[:, 1], in hundredths
Probs == {0, 25, 30, 45, 50, 55, 82, 100}

\* --confidence values of generate_signals.py, in hundredths
Thresholds == {CONFIDENCE_THRESHOLD, 50, 40}

\* the timestamps 1 .. len in file order: oldest first, or newest first
Orders(len) == {[k \in 0 .. len - 1 |-> k + 1], [k \in 0 .. len - 1 |-> len - k]}

\* every DataFrame of len rows over B in ascending time order, as
\* build_feature_dataset writes them
SortedFrames(B, len) ==
    {[k \in 0 .. len - 1 |-> [time |-> k + 1, bar |-> b[k]]] : b \in [0 .. len - 1 -> B]}

\* every DataFrame of len rows over B, timestamps unique
Frames(B, len) ==
    {[k \in 0 .. len - 1 |-> [time |-> p[k], bar |-> b[k]]] :
        p \in Orders(len), b \in [0 .. len - 1 -> B]}

Len0(f) == Cardinality(DOMAIN f)

\* faulty variant: the frame is left in the order it came in
SortByTime_AsGiven(f) == f

\* df.sort_values("time").reset_index(drop=True)
SortByTime(f) ==
    [k \in 0 .. Len0(f) - 1 |->
        LET r == CHOOSE r \in DOMAIN f :
                     Cardinality({q \in DOMAIN f : f[q].time < f[r].time}) = k
        IN  f[r]]

\* rows in ascending time order; frames with the same rows
Ascending(f) == \A k \in 1 .. Len0(f) - 1 : f[k - 1].time < f[k].time
SameRows(f, g) == Len0(f) = Len0(g) /\ {f[k] : k \in DOMAIN f} = {g[k] : k \in DOMAIN g}

None == <<>>

----------------------------------------------------------------------------
Init ==
    /\ \/ /\ argv = "run_pipeline"
          /\ cfg \in Configs
          /\ \E len \in 1 .. MaxBars : df \in SortedFrames(BarSet, len)
          /\ others = <<>>
       \/ /\ argv = "generate_signals"
          /\ cfg = DefaultConfig
          /\ \E len \in 0 .. MaxSignalBars : df \in Frames(SignalBarSet, len)
          /\ others = <<>>
       \/ /\ argv = "build_labels"
          /\ cfg \in LabelConfigs
          /\ \E len \in 1 .. MaxExampleBars :
                \E f \in Frames(ExampleBars, len), g \in Frames(ExampleBars, 1) :
                    \/ df = f /\ others = <<>>
                    \/ df = f /\ others = <<g>>
                    \/ df = g /\ others = <<f>>
                    \/ \E f2 \in Frames(ExampleBars, len) :
                          SameRows(f, f2) /\ df = f /\ others = <<f2>>
       \/ /\ argv = "build_labels"
          /\ cfg \in HorizonConfigs
          /\ df \in Frames(RegimeGridBars, 1)
          /\ others = <<>>
    /\ given = <<>>
    /\ out = <<>>
    /\ pc = "main"
    /\ labels = <<>>
    /\ i = 0 /\ j = 0
    /\ tp_mult = 0 /\ sl_mult = 0 /\ horizon = 0
    /\ tp_long = 0 /\ sl_long = 0 /\ tp_short = 0 /\ sl_short = 0
    /\ start = 0 /\ end = 0
    /\ hit_long = None /\ hit_short = None
    /\ reads = <<>>
    /\ confidence_threshold = cfg.confidence_threshold
    /\ use_latest_only = TRUE
    /\ rows = <<>>
    /\ prob = 0 /\ direction = "" /\ confidence = 0
    /\ signals = <<>>
    /\ probs = <<>> /\ trades = <<>>
    /\ args = <<>> /\ env = <<>> /\ log = <<>> /\ ret = <<>>

----------------------------------------------------------------------------
(* src/src/labeling.py: apply_triple_barrier_for_symbol *)

Max(a, b) == IF a >= b THEN a ELSE b
Min(a, b) == IF a <= b THEN a ELSE b

n == Len0(df)

\* np.isnan(atr[i]) or atr[i] == 0
AtrMissing(a) == IsNaN(a) \/ a = 0

\* faulty variant: a NaN vol_ratio becomes 0.0
CurrentVolRatio_NaNAsZero(v) == IF ~IsNaN(v) THEN v ELSE 0

\* vol_ratio[i] if not np.isnan(vol_ratio[i]) else 1.0
CurrentVolRatio(v) == IF ~IsNaN(v) THEN v ELSE 10

\* trend_strength[i] if not np.isnan(trend_strength[i]) else 0.0
CurrentTrend(t) == IF ~IsNaN(t) THEN t ELSE 0

\* faulty variant: low volatility is tested before the trend
SelectTpMult_VolatilityFirst(c, current_trend, current_vol_ratio) ==
    IF current_vol_ratio < 8 THEN 15
    ELSE IF current_trend > 30 THEN 25
    ELSE c.tp_atr_mult

\* tp_mult: 2.5 in a strong trend, 1.5 in low volatility, else TP_ATR_MULT
SelectTpMult(c, current_trend, current_vol_ratio) ==
    IF current_trend > 30 THEN 25
    ELSE IF current_vol_ratio < 8 THEN 15
    ELSE c.tp_atr_mult

\* sl_mult = SL_ATR_MULT
SelectSlMult(c) == c.sl_atr_mult

\* faulty variant: the products are rounded to the nearest integer
SelectHorizon_Rounded(c, current_vol_ratio) ==
    IF current_vol_ratio > 15 THEN Max(c.min_horizon, (c.max_horizon * 5 + 5) \div 10)
    ELSE IF current_vol_ratio > 12 THEN Max(c.min_horizon, (c.max_horizon * 7 + 5) \div 10)
    ELSE IF current_vol_ratio < 8 THEN Min((c.max_horizon * 13 + 5) \div 10, 13)
    ELSE c.max_horizon

\* horizon; int(H * 0.5), int(H * 0.7), int(H * 1.3) truncate
SelectHorizon(c, current_vol_ratio) ==
    IF current_vol_ratio > 15 THEN Max(c.min_horizon, (c.max_horizon * 5) \div 10)
    ELSE IF current_vol_ratio > 12 THEN Max(c.min_horizon, (c.max_horizon * 7) \div 10)
    ELSE IF current_vol_ratio < 8 THEN Min((c.max_horizon * 13) \div 10, 13)
    ELSE c.max_horizon

\* entry + mult * atr and entry - mult * atr, in tenths of a tick
BarrierAbove(entry, mult, a) == FAdd(10 * entry, FMul(mult, a))
BarrierBelow(entry, mult, a) == FSub(10 * entry, FMul(mult, a))

\* faulty variant: the window starts at the entry bar
WindowStart_AtEntry(e) == e

\* start = i + 1
WindowStart(e) == e + 1

\* faulty variant: the window runs one bar too far
WindowEnd_OneTooFar(e, h, len) == Min(e + h + 2, len)

\* faulty variant: the scan runs to the end of the series
WindowEnd_SeriesEnd(e, h, len) == len

\* end = min(i + horizon + 1, n)
WindowEnd(e, h, len) == Min(e + h + 1, len)

\* faulty variant: stop-loss is tested first
CheckLong_StopFirst(hit, k, high, low, tp, sl) ==
    IF hit # None THEN hit
    ELSE IF FLe(10 * low, sl) THEN <<k, "sl">>
    ELSE IF FGe(10 * high, tp) THEN <<k, "tp">>
    ELSE None

\* one bar of the scan for the long hypothesis: take-profit is tested first
CheckLong(hit, k, high, low, tp, sl) ==
    IF hit # None THEN hit
    ELSE IF FGe(10 * high, tp) THEN <<k, "tp">>
    ELSE IF FLe(10 * low, sl) THEN <<k, "sl">>
    ELSE None

\* faulty variant: stop-loss is tested first
CheckShort_StopFirst(hit, k, high, low, tp, sl) ==
    IF hit # None THEN hit
    ELSE IF FGe(10 * high, sl) THEN <<k, "sl">>
    ELSE IF FLe(10 * low, tp) THEN <<k, "tp">>
    ELSE None

\* faulty variant: a resolved hypothesis is tested again
CheckShort_Overwrite(hit, k, high, low, tp, sl) ==
    IF FLe(10 * low, tp) THEN <<k, "tp">>
    ELSE IF FGe(10 * high, sl) THEN <<k, "sl">>
    ELSE hit

\* one bar of the scan for the short hypothesis: take-profit is tested first
CheckShort(hit, k, high, low, tp, sl) ==
    IF hit # None THEN hit
    ELSE IF FLe(10 * low, tp) THEN <<k, "tp">>
    ELSE IF FGe(10 * high, sl) THEN <<k, "sl">>
    ELSE None

\* long_outcome / short_outcome
Outcome(hit) == IF hit # None THEN (IF hit[2] = "tp" THEN 1 ELSE 0 - 1) ELSE 0

\* faulty variant: neutral as soon as one hypothesis has no hit
ResolveLabel_EitherMissing(hl, hs) ==
    IF hl = None \/ hs = None THEN 0
    ELSE IF Outcome(hl) > Outcome(hs) THEN 1
    ELSE IF Outcome(hs) > Outcome(hl) THEN 0 - 1
    ELSE 0

\* faulty variant: a side wins only with a take-profit of its own
ResolveLabel_OwnTakeProfit(hl, hs) ==
    IF Outcome(hl) = 1 /\ Outcome(hs) # 1 THEN 1
    ELSE IF Outcome(hs) = 1 /\ Outcome(hl) # 1 THEN 0 - 1
    ELSE 0

\* the label from the two first hits
ResolveLabel(hl, hs) ==
    IF hl = None /\ hs = None THEN 0
    ELSE IF Outcome(hl) > Outcome(hs) THEN 1
    ELSE IF Outcome(hs) > Outcome(hl) THEN 0 - 1
    ELSE 0

\* python build_labels.py, also step 3 of run_pipeline.py: the rows are sorted
\* by symbol and time, the groupby apply hands the next symbol's rows (never
\* an empty group) to apply_triple_barrier_for_symbol, which sorts them by
\* time again and starts every label at 0
StartLabeling ==
    /\ pc \in {"main", "groupby"}
    /\ argv \in {"run_pipeline", "build_labels"}
    /\ LET group == IF pc = "main" THEN df ELSE Head(others)
       IN  /\ given' = group
           /\ df' = SortByTime(group)
           /\ labels' = [k \in 0 .. Len0(group) - 1 |-> 0]
    /\ others' = IF pc = "main" THEN others ELSE Tail(others)
    /\ reads' = <<>>
    /\ i' = 0
    /\ pc' = "for_i"
    /\ UNCHANGED <<sideVars, argv, cfg, out, j, labelLocals, hit_long, hit_short, signalVars>>

\* for i in range(n): the bar has no ATR, label 0 and continue
SkipBar ==
    /\ pc = "for_i"
    /\ i < n
    /\ AtrMissing(df[i].bar.atr)
    /\ labels' = [labels EXCEPT ![i] = 0]
    /\ i' = i + 1
    /\ UNCHANGED <<sideVars, argv, cfg, given, others, out, df, pc, j, labelLocals, hit_long, hit_short, reads, signalVars>>

\* faulty variant: the first hits of the previous entry bar are left in place
OpenWindow_HitsCarried ==
    /\ pc = "for_i"
    /\ i < n
    /\ ~AtrMissing(df[i].bar.atr)
    /\ LET entry == df[i].bar.close
           a == df[i].bar.atr
           current_vol_ratio == CurrentVolRatio(df[i].bar.vol_ratio)
           current_trend == CurrentTrend(df[i].bar.trend_strength)
           tm == SelectTpMult(cfg, current_trend, current_vol_ratio)
           sm == SelectSlMult(cfg)
           h == SelectHorizon(cfg, current_vol_ratio)
       IN  /\ tp_mult' = tm
           /\ sl_mult' = sm
           /\ tp_long' = BarrierAbove(entry, tm, a)
           /\ sl_long' = BarrierBelow(entry, sm, a)
           /\ tp_short' = BarrierBelow(entry, tm, a)
           /\ sl_short' = BarrierAbove(entry, sm, a)
           /\ horizon' = h
           /\ start' = WindowStart(i)
           /\ end' = WindowEnd(i, h, n)
    /\ IF start' >= n
       THEN /\ labels' = [labels EXCEPT ![i] = 0]
            /\ i' = i + 1
            /\ UNCHANGED <<pc, j>>
       ELSE /\ IF start' < end'
               THEN j' = start' /\ pc' = "for_j"
               ELSE j' = j /\ pc' = "resolve"
            /\ UNCHANGED <<labels, i>>
    /\ UNCHANGED <<sideVars, argv, cfg, given, others, out, df, hit_long, hit_short, reads, signalVars>>

\* for i in range(n): barriers, horizon and window of entry bar i; with no
\* bar after it the label is 0, else the scan starts at j = start
OpenWindow ==
    /\ pc = "for_i"
    /\ i < n
    /\ ~AtrMissing(df[i].bar.atr)
    /\ LET entry == df[i].bar.close
           a == df[i].bar.atr
           current_vol_ratio == CurrentVolRatio(df[i].bar.vol_ratio)
           current_trend == CurrentTrend(df[i].bar.trend_strength)
           tm == SelectTpMult(cfg, current_trend, current_vol_ratio)
           sm == SelectSlMult(cfg)
           h == SelectHorizon(cfg, current_vol_ratio)
       IN  /\ tp_mult' = tm
           /\ sl_mult' = sm
           /\ tp_long' = BarrierAbove(entry, tm, a)
           /\ sl_long' = BarrierBelow(entry, sm, a)
           /\ tp_short' = BarrierBelow(entry, tm, a)
           /\ sl_short' = BarrierAbove(entry, sm, a)
           /\ horizon' = h
           /\ start' = WindowStart(i)
           /\ end' = WindowEnd(i, h, n)
    /\ IF start' >= n
       THEN /\ labels' = [labels EXCEPT ![i] = 0]
            /\ i' = i + 1
            /\ UNCHANGED <<pc, j, hit_long, hit_short>>
       ELSE /\ hit_long' = None
            /\ hit_short' = None
            /\ IF start' < end'
               THEN j' = start' /\ pc' = "for_j"
               ELSE j' = j /\ pc' = "resolve"
            /\ UNCHANGED <<labels, i>>
    /\ UNCHANGED <<sideVars, argv, cfg, given, others, out, df, reads, signalVars>>

\* faulty variant: break as soon as one hypothesis is resolved
ScanBar_BreakOnEither ==
    /\ pc = "for_j"
    /\ j < end
    /\ reads' = Append(reads, <<i, j>>)
    /\ hit_long' = CheckLong(hit_long, j, df[j].bar.high, df[j].bar.low, tp_long, sl_long)
    /\ hit_short' = CheckShort(hit_short, j, df[j].bar.high, df[j].bar.low, tp_short, sl_short)
    /\ IF (hit_long' # None \/ hit_short' # None) \/ j + 1 >= end
       THEN j' = j /\ pc' = "resolve"
       ELSE j' = j + 1 /\ pc' = "for_j"
    /\ UNCHANGED <<sideVars, argv, cfg, given, others, out, df, labels, i, labelLocals, signalVars>>

\* for j in range(start, end): one bar of the forward scan; break once both
\* hypotheses are resolved
ScanBar ==
    /\ pc = "for_j"
    /\ j < end
    /\ reads' = Append(reads, <<i, j>>)
    /\ hit_long' = CheckLong(hit_long, j, df[j].bar.high, df[j].bar.low, tp_long, sl_long)
    /\ hit_short' = CheckShort(hit_short, j, df[j].bar.high, df[j].bar.low, tp_short, sl_short)
    /\ IF (hit_long' # None /\ hit_short' # None) \/ j + 1 >= end
       THEN j' = j /\ pc' = "resolve"
       ELSE j' = j + 1 /\ pc' = "for_j"
    /\ UNCHANGED <<sideVars, argv, cfg, given, others, out, df, labels, i, labelLocals, signalVars>>

\* the label of entry bar i from the two outcomes
Resolve ==
    /\ pc = "resolve"
    /\ labels' = [labels EXCEPT ![i] = ResolveLabel(hit_long, hit_short)]
    /\ i' = i + 1
    /\ pc' = "for_i"
    /\ UNCHANGED <<sideVars, argv, cfg, given, others, out, df, j, labelLocals, hit_long, hit_short, reads, signalVars>>

\* df["label"] = labels; return df: the groupby apply collects the frame and
\* goes on with the next symbol, if any
FinishLabeling ==
    /\ pc = "for_i"
    /\ i >= n
    /\ out' = Append(out, [df |-> df, label |-> labels])
    /\ pc' = IF others = <<>> THEN "labeled" ELSE "groupby"
    /\ UNCHANGED <<sideVars, argv, cfg, given, others, df, labels, i, j, labelLocals, hit_long,
                   hit_short, reads, signalVars>>

----------------------------------------------------------------------------
(* src/src/signal_engine.py: generate_signals *)

\* feature_names holds every column but time, symbol, open, high, low, close,
\* label, target (dataset.py get_feature_columns), so dropna(subset=feature_names)
\* drops a row whose atr, vol_ratio or trend_strength is NaN
FeaturesPresent(b) == ~IsNaN(b.atr) /\ ~IsNaN(b.vol_ratio) /\ ~IsNaN(b.trend_strength)

\* the positions from .. n-1 of f, ascending, whose features are all present
RECURSIVE DropNa(_, _)
DropNa(f, from) ==
    IF from >= Len0(f) THEN <<>>
    ELSE (IF FeaturesPresent(f[from].bar) THEN <<from>> ELSE <<>>) \o DropNa(f, from + 1)

\* symbol_df: sorted by time, tail(1) when use_latest_only, NaN rows dropped
SymbolRows(f, latest) ==
    DropNa(f, IF latest /\ Len0(f) > 0 THEN Len0(f) - 1 ELSE 0)

\* faulty variant: SHORT is decided against the configured CONFIDENCE_THRESHOLD
SignalDirection_ConfiguredShort(p, t) ==
    IF p >= t THEN "LONG"
    ELSE IF p <= 100 - CONFIDENCE_THRESHOLD THEN "SHORT"
    ELSE "NONE"

\* faulty variant: LONG needs prob > threshold
SignalDirection_Strict(p, t) ==
    IF p > t THEN "LONG"
    ELSE IF p <= 100 - t THEN "SHORT"
    ELSE "NONE"

\* LONG at prob >= threshold, else SHORT at prob <= 1 - threshold, else NONE
SignalDirection(p, t) ==
    IF p >= t THEN "LONG"
    ELSE IF p <= 100 - t THEN "SHORT"
    ELSE "NONE"

\* faulty variant: the confidence is the probability of a long win
SignalConfidence_ProbLong(p, t) == p

\* confidence of the chosen direction
SignalConfidence(p, t) ==
    IF p >= t THEN p
    ELSE IF p <= 100 - t THEN 100 - p
    ELSE Max(p, 100 - p)

\* the take-profit and stop-loss multiples generate_signals prices with
SignalTpMult(b) == cfg.tp_atr_mult
SignalSlMult(b) == cfg.sl_atr_mult

\* the signal dictionary of one row
MakeSignal(r, p, t) ==
    LET d == SignalDirection(p, t)
        b == r.bar
    IN  [timestamp |-> r.time,
         direction |-> d,
         confidence |-> SignalConfidence(p, t),
         prob_long |-> p,
         entry_price |-> 10 * b.close,
         tp_price |-> IF d = "LONG"
                      THEN BarrierAbove(b.close, SignalTpMult(b), b.atr)
                      ELSE BarrierBelow(b.close, SignalTpMult(b), b.atr),
         sl_price |-> IF d = "LONG"
                      THEN BarrierBelow(b.close, SignalSlMult(b), b.atr)
                      ELSE BarrierAbove(b.close, SignalSlMult(b), b.atr),
         atr |-> b.atr,
         risk_reward_ratio |-> (10 * cfg.tp_atr_mult) \div cfg.sl_atr_mult]

\* generate_signals up to the row loop
EnterGenerateSignals(t, latest) ==
    /\ confidence_threshold' = t
    /\ use_latest_only' = latest
    /\ df' = SortByTime(df)
    /\ rows' = SymbolRows(df', latest)
    /\ signals' = <<>>
    /\ pc' = "for_idx"
    /\ UNCHANGED <<sideVars, argv, cfg, given, others, out, labels, i, j, labelLocals, hit_long, hit_short, reads,
                   prob, direction, confidence>>

\* run_pipeline.py step 4: python generate_signals.py --model lgbm_optimized
\* --confidence 0.5, after step 3 returned success
PipelineSignals ==
    /\ pc = "labeled"
    /\ argv = "run_pipeline"
    /\ EnterGenerateSignals(50, TRUE)

\* python generate_signals.py [--confidence t] [--history N]
CommandLineSignals ==
    /\ pc = "main"
    /\ argv = "generate_signals"
    /\ \E t \in Thresholds, latest \in BOOLEAN : EnterGenerateSignals(t, latest)

\* for idx in symbol_df.index: one row, with the model's probability for it
SignalRow ==
    /\ pc = "for_idx"
    /\ rows # <<>>
    /\ \E p \in Probs : prob' = p
    /\ direction' = SignalDirection(prob', confidence_threshold)
    /\ confidence' = SignalConfidence(prob', confidence_threshold)
    /\ LET r == df[Head(rows)]
       IN  signals' =
               IF direction' = "NONE" THEN signals
               ELSE IF AtrMissing(r.bar.atr) THEN signals
               ELSE Append(signals, MakeSignal(r, prob', confidence_threshold))
    /\ rows' = Tail(rows)
    /\ UNCHANGED <<sideVars, argv, cfg, given, others, out, df, pc, labels, i, j, labelLocals, hit_long, hit_short, reads,
                   confidence_threshold, use_latest_only>>

\* return signals
FinishSignals ==
    /\ pc = "for_idx"
    /\ rows = <<>>
    /\ pc' = "done"
    /\ UNCHANGED <<sideVars, argv, cfg, given, others, out, df, labels, i, j, labelLocals, hit_long, hit_short, reads,
                   signalVars>>

----------------------------------------------------------------------------
Next ==
    \/ StartLabeling
    \/ SkipBar
    \/ OpenWindow
    \/ ScanBar
    \/ Resolve
    \/ FinishLabeling
    \/ PipelineSignals
    \/ CommandLineSignals
    \/ SignalRow
    \/ FinishSignals

Spec == Init /\ [][Next]_vars

----------------------------------------------------------------------------
(* Variables a script leaves alone *)

scanVars == <<labels, j, labelLocals, hit_long, hit_short, reads, given, others, out>>
rowVars == <<use_latest_only, rows, prob, direction, confidence>>

\* the values of Init for the variables of labeling and of the signal loop
ScanAtRest ==
    /\ given = <<>> /\ others = <<>> /\ out = <<>>
    /\ labels = <<>>
    /\ j = 0
    /\ tp_mult = 0 /\ sl_mult = 0 /\ horizon = 0
    /\ tp_long = 0 /\ sl_long = 0 /\ tp_short = 0 /\ sl_short = 0
    /\ start = 0 /\ end = 0
    /\ hit_long = None /\ hit_short = None
    /\ reads = <<>>
RowsAtRest ==
    /\ use_latest_only = TRUE
    /\ rows = <<>>
    /\ prob = 0 /\ direction = "" /\ confidence = 0

----------------------------------------------------------------------------
(* src/src/backtest.py: run_backtest, as run_backtest.py and
   backtest_with_confidence_levels call it *)

\* longest test set handed to run_backtest
MaxTestRows == 2

\* backtest_with_confidence_levels: [0.5, 0.55, 0.6, 0.65, 0.7, 0.75, 0.8];
\* run_backtest.py --confidence takes any float, here 0.4 as well
BacktestThresholds == {50, 55, 60, 65, 70, 75, 80} \cup {40}

\* the test set: rows with a time and a label, the neutral labels filtered out
\* by the callers, in any order
TestFrames(len) ==
    {[k \in 0 .. len - 1 |-> [time |-> p[k], label |-> l[k]]] :
        p \in Orders(len), l \in [0 .. len - 1 -> {1, 0 - 1}]}

\* signals = np.zeros(len(df)); signals[probs >= t] = 1; signals[probs <= 1 - t] = -1:
\* the second assignment overwrites the first
BacktestSignal(p, t) ==
    LET zeros == 0
        long == IF p >= t THEN 1 ELSE zeros
    IN  IF p <= 100 - t THEN 0 - 1 ELSE long

\* 'LONG' if signal == 1 else 'SHORT'
TradeSide(signal) == IF signal = 1 THEN "LONG" ELSE "SHORT"

\* win = (label == 1) for a long trade, (label == -1) for a short trade
TradeWins(signal, label) == IF signal = 1 THEN label = 1 ELSE label = 0 - 1

BacktestInit ==
    /\ argv = "run_backtest"
    /\ cfg = DefaultConfig
    /\ confidence_threshold \in BacktestThresholds
    /\ \E len \in 0 .. MaxTestRows : df \in TestFrames(len)
    /\ pc = "main"
    /\ i = 0
    /\ signals = <<>>
    /\ probs = <<>> /\ trades = <<>>
    /\ args = <<>> /\ env = <<>> /\ log = <<>> /\ ret = <<>>
    /\ ScanAtRest /\ RowsAtRest

\* run_backtest up to the row loop: sort by time, predict, determine signals
DetermineSignals ==
    /\ pc = "main"
    /\ argv = "run_backtest"
    /\ df' = SortByTime(df)
    /\ probs' \in [DOMAIN df -> Probs]
    /\ signals' = [k \in DOMAIN df |-> BacktestSignal(probs'[k], confidence_threshold)]
    /\ trades' = <<>>
    /\ i' = 0
    /\ pc' = "for_i"
    /\ UNCHANGED <<argv, cfg, confidence_threshold, scanVars, rowVars, args, env, log, ret>>

\* for i in range(len(df)): signal == 0, no trade
NoTrade ==
    /\ pc = "for_i"
    /\ argv = "run_backtest"
    /\ i < n
    /\ signals[i] = 0
    /\ i' = i + 1
    /\ UNCHANGED <<argv, cfg, df, pc, confidence_threshold, signals, probs, trades, scanVars,
                   rowVars, args, env, log, ret>>

\* for i in range(len(df)): a trade is recorded; its pnl and the equity after
\* it follow from win alone and are left out
Trade ==
    /\ pc = "for_i"
    /\ argv = "run_backtest"
    /\ i < n
    /\ signals[i] # 0
    /\ trades' = Append(trades, [time |-> df[i].time,
                                 signal |-> TradeSide(signals[i]),
                                 prob |-> probs[i],
                                 label |-> df[i].label,
                                 win |-> TradeWins(signals[i], df[i].label)])
    /\ i' = i + 1
    /\ UNCHANGED <<argv, cfg, df, pc, confidence_threshold, signals, probs, scanVars,
                   rowVars, args, env, log, ret>>

\* return trades_df, metrics
FinishBacktest ==
    /\ pc = "for_i"
    /\ argv = "run_backtest"
    /\ i >= n
    /\ ret' = trades
    /\ pc' = "done"
    /\ UNCHANGED <<argv, cfg, df, i, confidence_threshold, signals, probs, trades, scanVars,
                   rowVars, args, env, log>>

BacktestNext ==
    \/ DetermineSignals
    \/ NoTrade
    \/ Trade
    \/ FinishBacktest

BacktestSpec == BacktestInit /\ [][BacktestNext]_vars

----------------------------------------------------------------------------
(* run_pipeline.py: main and run *)

\* the four commands of main, in the order of the file
Steps == <<"python fetch_data.py", "python build_features.py", "python build_labels.py",
           "python generate_signals.py --model lgbm_optimized --confidence 0.5">>

\* exit codes a step's process may end with
ReturnCodes == {0, 1, 2}

\* what subprocess.run may raise other than CalledProcessError
RunErrors == {"OSError", "KeyboardInterrupt"}

\* the directory the script is started in has src/ or not, DATABASE_URL is
\* set or not, and psycopg2, which src/database.py imports, is installed or not
PipelineEnvs == [src_dir : BOOLEAN, DATABASE_URL : BOOLEAN, psycopg2 : BOOLEAN]

\* faulty variant: main goes on after a failed step
AfterStep_GoesOn(k, success) ==
    IF k < Len(Steps) THEN <<"step", k + 1>> ELSE <<"completed">>

\* if not success: sys.exit(1); else the next step, or the end of main
AfterStep(k, success) ==
    IF ~success THEN <<"exit">>
    ELSE IF k < Len(Steps) THEN <<"step", k + 1>>
    ELSE <<"completed">>

PipelineInit ==
    /\ argv = "run_pipeline"
    /\ cfg = DefaultConfig
    /\ env \in PipelineEnvs
    /\ pc = <<"main">>
    /\ log = <<>>
    /\ ret = <<>>
    /\ df = <<>>
    /\ i = 0
    /\ confidence_threshold = cfg.confidence_threshold
    /\ signals = <<>>
    /\ probs = <<>> /\ trades = <<>>
    /\ args = <<>>
    /\ ScanAtRest /\ RowsAtRest

pipelineRest == <<argv, cfg, df, i, confidence_threshold, signals, probs, trades, args, env,
                  scanVars, rowVars>>

\* if not Path("src").exists(): sys.exit(1)
CheckDirectory ==
    /\ pc = <<"main">>
    /\ IF env.src_dir
       THEN pc' = <<"init_database">> /\ ret' = ret
       ELSE pc' = <<"exit">> /\ ret' = <<1>>
    /\ UNCHANGED <<log, pipelineRest>>

\* the try block around init_database: the import of src.database fails
\* without psycopg2, is_database_available() is False without DATABASE_URL,
\* and init_database() returns True ("ok") or, having caught its own
\* exception, False ("failed"); whatever happens main goes on with step 1
InitializeDatabase ==
    /\ pc = <<"init_database">>
    /\ \/ /\ ~env.psycopg2
          /\ log' = Append(log, <<"init_database", "ImportError">>)
       \/ /\ env.psycopg2 /\ ~env.DATABASE_URL
          /\ log' = log
       \/ /\ env.psycopg2 /\ env.DATABASE_URL
          /\ \E result \in {"ok", "failed"} :
                log' = Append(log, <<"init_database", result>>)
    /\ pc' = <<"step", 1>>
    /\ UNCHANGED <<ret, pipelineRest>>

\* run(cmd, description): subprocess.run starts the command
StartStep ==
    /\ pc[1] = "step"
    /\ log' = Append(log, <<"start", pc[2]>>)
    /\ pc' = <<"running", pc[2]>>
    /\ UNCHANGED <<ret, pipelineRest>>

\* the command has ended with a return code: run returns True for 0 and
\* False for CalledProcessError, and main exits with 1 when it is False
StepReturns ==
    /\ pc[1] = "running"
    /\ \E rc \in ReturnCodes :
          /\ log' = Append(log, <<"returned", pc[2], rc>>)
          /\ pc' = AfterStep(pc[2], rc = 0)
          /\ ret' = IF pc' = <<"exit">> THEN <<1>> ELSE ret
    /\ UNCHANGED pipelineRest

\* subprocess.run raises something run does not catch: the handlers at the
\* bottom of the file exit with 1
StepRaises ==
    /\ pc[1] = "running"
    /\ \E e \in RunErrors : log' = Append(log, <<"raised", pc[2], e>>)
    /\ pc' = <<"exit">>
    /\ ret' = <<1>>
    /\ UNCHANGED pipelineRest

\* return 0; sys.exit(exit_code)
Complete ==
    /\ pc = <<"completed">>
    /\ pc' = <<"exit">>
    /\ ret' = <<0>>
    /\ UNCHANGED <<log, pipelineRest>>

PipelineNext ==
    \/ CheckDirectory
    \/ InitializeDatabase
    \/ StartStep
    \/ StepReturns
    \/ StepRaises
    \/ Complete

PipelineSpec == PipelineInit /\ [][PipelineNext]_vars

----------------------------------------------------------------------------
(* fetch_data.py: build_all_ohlcv (src/src/data_pipeline.py) with one
   AlphaVantageClient (src/src/alpha_vantage_client.py) *)

\* number of configured pairs (FOREX_PAIRS has 7)
MaxPairs == 3

\* FOREX_PAIRS, by position
FOREX_PAIRS == 1 .. MaxPairs

\* what a request may end with: a valid response, or requests.get raising,
\* raise_for_status raising, or a response without "Time Series FX (Daily)"
\* (an error message, or the note of the API's own rate limit)
Responses == {"valid", "ConnectionError", "HTTPError", "ValueError"}

\* ALPHA_VANTAGE_API_KEY is set or not, and the pairs with a cache file
ClientEnvs == [api_key : BOOLEAN, cache : SUBSET FOREX_PAIRS]

ClientInit ==
    /\ argv = "fetch_data"
    /\ cfg = DefaultConfig
    /\ env \in ClientEnvs
    /\ pc = "main"
    /\ i = 0
    /\ log = <<>>
    /\ ret = <<>>
    /\ df = <<>>
    /\ confidence_threshold = cfg.confidence_threshold
    /\ signals = <<>>
    /\ probs = <<>> /\ trades = <<>>
    /\ args = <<>>
    /\ ScanAtRest /\ RowsAtRest

clientRest == <<argv, cfg, df, confidence_threshold, signals, probs, trades, scanVars,
                rowVars>>

\* client = AlphaVantageClient(): ValueError without an API key, which
\* fetch_data.py turns into exit code 1; pause_seconds = 15.0
CreateClient ==
    /\ pc = "main"
    /\ argv = "fetch_data"
    /\ IF env.api_key
       THEN /\ args' = [pause_seconds |-> 15]
            /\ i' = 1
            /\ pc' = "for_pair"
            /\ ret' = ret
       ELSE /\ args' = args
            /\ i' = i
            /\ pc' = "exit"
            /\ ret' = <<1>>
    /\ UNCHANGED <<env, log, clientRest>>

\* get_fx_daily_raw, cache file present: the file is read and returned, then
\* the pair is parsed and saved, or that fails and the loop continues
LoadCached ==
    /\ pc = "for_pair"
    /\ i <= MaxPairs
    /\ i \in env.cache
    /\ \E saved \in {"saved", "error"} :
          log' = log \o <<(<<"cache", i>>), (<<saved, i>>)>>
    /\ i' = i + 1
    /\ UNCHANGED <<pc, env, args, ret, clientRest>>

\* get_fx_daily_raw, no cache file: requests.get
Request ==
    /\ pc = "for_pair"
    /\ i <= MaxPairs
    /\ i \notin env.cache
    /\ log' = Append(log, <<"request", i>>)
    /\ pc' = "requested"
    /\ UNCHANGED <<i, env, args, ret, clientRest>>

\* the request raised or the response is not valid: the exception leaves
\* get_fx_daily_raw, build_all_ohlcv catches it and continues with the next
\* pair
RequestFails ==
    /\ pc = "requested"
    /\ \E r \in Responses \ {"valid"} : log' = Append(log, <<r, i>>)
    /\ i' = i + 1
    /\ pc' = "for_pair"
    /\ UNCHANGED <<env, args, ret, clientRest>>

\* the response is valid: it is cached, time.sleep(self.pause_seconds), return
\* data; then the pair is parsed and saved, or that fails and the loop
\* continues
RequestSucceeds ==
    /\ pc = "requested"
    /\ env' = [env EXCEPT !.cache = @ \cup {i}]
    /\ \E saved \in {"saved", "error"} :
          log' = log \o <<(<<"valid", i>>), (<<"sleep", args.pause_seconds>>), (<<saved, i>>)>>
    /\ i' = i + 1
    /\ pc' = "for_pair"
    /\ UNCHANGED <<args, ret, clientRest>>

\* the loop is over: summary, return 0
FinishFetch ==
    /\ pc = "for_pair"
    /\ i > MaxPairs
    /\ pc' = "exit"
    /\ ret' = <<0>>
    /\ UNCHANGED <<i, env, args, log, clientRest>>

ClientNext ==
    \/ CreateClient
    \/ LoadCached
    \/ Request
    \/ RequestFails
    \/ RequestSucceeds
    \/ FinishFetch

ClientSpec == ClientInit /\ [][ClientNext]_vars

----------------------------------------------------------------------------
(* src/src/dataset.py: split_train_val_test *)

\* most rows of a dataset handed to split_train_val_test
MaxSplitRows == 4

\* the dates of the rows, and the dates val_start / test_start may be
SplitTimes == 1 .. 4
SplitStarts == 1 .. 5

\* every dataset of len rows, in any order; rows of different symbols share dates
Datasets(len) == [0 .. len - 1 -> [time : SplitTimes]]

\* df.sort_values("time").reset_index(drop=True): the rows of f in an order
\* in which no time comes before an earlier one
SortedByTime(f) ==
    {[k \in DOMAIN f |-> f[p[k]]] : p \in Permutations(DOMAIN f)}
        \cap {g \in [DOMAIN f -> {f[k] : k \in DOMAIN f}] :
                  \A k \in DOMAIN g : k > 0 => g[k - 1].time <= g[k].time}

\* df[mask]: the rows of f at the positions where the mask is True, under their
\* index
Masked(f, mask) == [k \in {q \in DOMAIN f : mask[q]} |-> f[k]]

\* faulty variant: the validation set starts after val_start
InVal_AfterStart(t, val_start, test_start) == t > val_start /\ t < test_start

\* the three masks
InTrain(t, val_start) == t < val_start
InVal(t, val_start, test_start) == t >= val_start /\ t < test_start
InTest(t, test_start) == t >= test_start

\* train_df, val_df, test_df
SplitParts(f, val_start, test_start) ==
    LET train == [k \in DOMAIN f |-> InTrain(f[k].time, val_start)]
        val == [k \in DOMAIN f |-> InVal(f[k].time, val_start, test_start)]
        test == [k \in DOMAIN f |-> InTest(f[k].time, test_start)]
    IN  [train_df |-> Masked(f, train), val_df |-> Masked(f, val),
         test_df |-> Masked(f, test)]

\* a["time"].max() < b["time"].min(): max() and min() of an empty column are
\* NaT, and every comparison with NaT is False
MaxBeforeMin(a, b) ==
    /\ DOMAIN a # {} /\ DOMAIN b # {}
    /\ \E x \in DOMAIN a, y \in DOMAIN b :
          /\ \A q \in DOMAIN a : a[q].time <= a[x].time
          /\ \A q \in DOMAIN b : b[y].time <= b[q].time
          /\ a[x].time < b[y].time

SplitInit ==
    /\ argv = "train_model"
    /\ cfg = DefaultConfig
    /\ \E len \in 0 .. MaxSplitRows : df \in Datasets(len)
    /\ args \in [val_start : SplitStarts, test_start : SplitStarts]
    /\ pc = "main"
    /\ i = 0
    /\ env = <<>> /\ log = <<>> /\ ret = <<>>
    /\ confidence_threshold = cfg.confidence_threshold
    /\ signals = <<>>
    /\ probs = <<>> /\ trades = <<>>
    /\ ScanAtRest /\ RowsAtRest

splitRest == <<argv, cfg, i, args, env, log, confidence_threshold, signals, probs, trades,
               scanVars, rowVars>>

\* df = df.sort_values("time").reset_index(drop=True)
SortDataset ==
    /\ pc = "main"
    /\ argv = "train_model"
    /\ df' \in SortedByTime(df)
    /\ pc' = "split"
    /\ UNCHANGED <<ret, splitRest>>

\* the three masks, the two assertions hold, return train_df, val_df, test_df
SplitReturns ==
    /\ pc = "split"
    /\ LET parts == SplitParts(df, args.val_start, args.test_start)
       IN  /\ MaxBeforeMin(parts.train_df, parts.val_df)
           /\ MaxBeforeMin(parts.val_df, parts.test_df)
           /\ ret' = <<parts.train_df, parts.val_df, parts.test_df>>
    /\ pc' = "returned"
    /\ UNCHANGED <<df, splitRest>>

\* the three masks, one of the two assertions fails: AssertionError
SplitRaises ==
    /\ pc = "split"
    /\ LET parts == SplitParts(df, args.val_start, args.test_start)
       IN  ~(/\ MaxBeforeMin(parts.train_df, parts.val_df)
             /\ MaxBeforeMin(parts.val_df, parts.test_df))
    /\ ret' = <<"AssertionError">>
    /\ pc' = "raised"
    /\ UNCHANGED <<df, splitRest>>

SplitNext ==
    \/ SortDataset
    \/ SplitReturns
    \/ SplitRaises

SplitSpec == SplitInit /\ [][SplitNext]_vars

----------------------------------------------------------------------------
(* src/src/signal_engine.py: save_signals; src/src/database.py: save_signals_db *)

\* most signals in a list handed to save_signals
MaxSaved == 2

\* the signal dictionaries of the lists
SavedSignals ==
    {[symbol |-> "EURUSD", direction |-> "LONG"], [symbol |-> "USDJPY", direction |-> "SHORT"]}

\* every list of len signals
SignalLists(len) == [1 .. len -> SavedSignals]

\* what the database does with the connection, the insert and the commit that
\* get_db_connection issues when the with block is left
DbOutcomes == {"ok", "connect_fails", "insert_fails", "exit_commit_fails"}

\* what the file system does with signals_dir.mkdir and open(filepath, 'w')
FsOutcomes == {"ok", "mkdir_fails", "open_fails"}

SaveEnvs == [DATABASE_URL : BOOLEAN, db : DbOutcomes, fs : FsOutcomes]

\* is_database_available()
IsDatabaseAvailable(e) == e.DATABASE_URL

\* the calls save_signals_db makes on the database for a non-empty list
DbCalls(e, sigs) ==
    IF e.db = "connect_fails" THEN <<<<"connect", "failed">>>>
    ELSE IF e.db = "insert_fails"
    THEN <<<<"connect", "ok">>, <<"insert", "failed">>, <<"rollback", "ok">>, <<"close", "ok">>>>
    ELSE IF e.db = "exit_commit_fails"
    THEN <<<<"connect", "ok">>, <<"insert", "ok">>, <<"commit", "ok">>, <<"commit", "failed">>,
           <<"rollback", "ok">>, <<"close", "ok">>>>
    ELSE <<<<"connect", "ok">>, <<"insert", "ok">>, <<"commit", "ok">>, <<"commit", "ok">>,
           <<"close", "ok">>>>

\* the value save_signals_db returns
SaveSignalsDbResult(e, sigs) ==
    IF sigs = <<>> THEN TRUE
    ELSE IF ~IsDatabaseAvailable(e) THEN FALSE
    ELSE e.db = "ok"

\* faulty variant: a failed database save ends save_signals
AfterSaveDb_GiveUp(saved) == IF saved THEN "backup" ELSE "returned"

\* where save_signals goes on after save_signals_db: the backup copy inside
\* the if, or the fallback after it
AfterSaveDb(saved) == IF saved THEN "backup" ELSE "fallback"

\* filepath, or signals_dir / signals_<timestamp>.json
JsonPath(filepath) == IF filepath = "None" THEN "signals_dir" ELSE filepath

SaveInit ==
    /\ argv = "generate_signals"
    /\ cfg = DefaultConfig
    /\ \E len \in 0 .. MaxSaved :
          args \in [signals : SignalLists(len), filepath : {"None", "custom"},
                    use_database : BOOLEAN]
    /\ env \in SaveEnvs
    /\ pc = "main"
    /\ log = <<>> /\ ret = <<>>
    /\ df = <<>> /\ i = 0
    /\ confidence_threshold = cfg.confidence_threshold
    /\ signals = <<>>
    /\ probs = <<>> /\ trades = <<>>
    /\ ScanAtRest /\ RowsAtRest

saveRest == <<argv, cfg, df, i, args, env, confidence_threshold, signals, probs, trades,
              scanVars, rowVars>>

\* if use_database and is_database_available():
CheckDatabase ==
    /\ pc = "main"
    /\ argv = "generate_signals"
    /\ args # <<>>
    /\ pc' = IF args.use_database /\ IsDatabaseAvailable(env) THEN "save_signals_db"
             ELSE "fallback"
    /\ UNCHANGED <<log, ret, saveRest>>

\* if save_signals_db(signals): the whole call, every Exception caught in it
SaveSignalsDb ==
    /\ pc = "save_signals_db"
    /\ log' = IF args.signals = <<>> THEN log ELSE log \o DbCalls(env, args.signals)
    /\ pc' = AfterSaveDb(SaveSignalsDbResult(env, args.signals))
    /\ ret' = IF pc' = "returned" THEN <<"None">> ELSE ret
    /\ UNCHANGED saveRest

\* mkdir (for the default path), open(filepath, 'w') and json.dump, as the
\* backup after a database save or as the fallback; then return
WriteJson ==
    /\ pc \in {"backup", "fallback"}
    /\ env.fs = "mkdir_fails" => args.filepath # "None"
    /\ env.fs # "open_fails"
    /\ log' = Append(log, <<"json", JsonPath(args.filepath), args.signals>>)
    /\ ret' = <<"None">>
    /\ pc' = "returned"
    /\ UNCHANGED saveRest

\* mkdir or open raises OSError: save_signals catches nothing
WriteJsonRaises ==
    /\ pc \in {"backup", "fallback"}
    /\ \/ env.fs = "mkdir_fails" /\ args.filepath = "None"
       \/ env.fs = "open_fails"
    /\ ret' = <<"OSError">>
    /\ pc' = "raised"
    /\ UNCHANGED <<log, saveRest>>

SaveNext ==
    \/ CheckDatabase
    \/ SaveSignalsDb
    \/ WriteJson
    \/ WriteJsonRaises

SaveSpec == SaveInit /\ [][SaveNext]_vars

----------------------------------------------------------------------------
(* Vocabulary of the properties *)

\* a configuration with a no-trade zone and min_horizon <= max_horizon
ConfigConsistent(c, t) == t > 50 /\ c.min_horizon <= c.max_horizon

\* ATR finite and > 0
ValidAtr(a) == IsFinite(a) /\ a > 0

\* the horizon selected for entry bar e
HorizonOf(e) == SelectHorizon(cfg, CurrentVolRatio(df[e].bar.vol_ratio))

\* the last index of the window of entry bar e
LastOfWindow(e) == Min(e + HorizonOf(e), n - 1)

\* bar k touches a barrier of the entry bar being scanned
TouchesTpLong(k) == FGe(10 * df[k].bar.high, tp_long)
TouchesSlLong(k) == FLe(10 * df[k].bar.low, sl_long)
TouchesTpShort(k) == FLe(10 * df[k].bar.low, tp_short)
TouchesSlShort(k) == FGe(10 * df[k].bar.high, sl_short)

\* the earliest bar of the window of entry bar i that touches a barrier of
\* the hypothesis, with the kind of the touch, or None
FirstTouch(tp(_), sl(_)) ==
    LET touched == {k \in i + 1 .. LastOfWindow(i) : tp(k) \/ sl(k)}
    IN  IF touched = {} THEN None
        ELSE LET k == CHOOSE k \in touched : \A m \in touched : k <= m
             IN  <<k, IF tp(k) THEN "tp" ELSE "sl">>

\* "tp", "sl" or "none"
Kind(hit) == IF hit = None THEN "none" ELSE hit[2]

\* long outcome, short outcome -> label
LabelTable ==
    [l \in {"tp", "sl", "none"} |->
        [s \in {"tp", "sl", "none"} |->
            CASE l = "tp" /\ s = "tp" -> 0
              [] l = "tp" /\ s = "sl" -> 1
              [] l = "tp" /\ s = "none" -> 1
              [] l = "sl" /\ s = "tp" -> 0 - 1
              [] l = "sl" /\ s = "sl" -> 0
              [] l = "sl" /\ s = "none" -> 0 - 1
              [] l = "none" /\ s = "tp" -> 0 - 1
              [] l = "none" /\ s = "sl" -> 1
              [] l = "none" /\ s = "none" -> 0]]

\* x / 10 for x >= 0: the integers nearest to it, and its integer part
Nearest(x) == {k \in 0 .. x : 10 * k - x <= 5 /\ x - 10 * k <= 5}
Truncated(x) == CHOOSE k \in 0 .. x : 10 * k <= x /\ x < 10 * (k + 1)

\* the horizon rule for baseline H, floor m and vol_ratio v, with the
\* products H * 0.5, H * 0.7, H * 1.3 brought to the integer r of Ints(.)
HorizonRule(H, m, v, h, Ints(_)) ==
    IF ~IsNaN(v) /\ v > 15 THEN \E r \in Ints(5 * H) : h = Max(m, r)
    ELSE IF ~IsNaN(v) /\ v > 12 THEN \E r \in Ints(7 * H) : h = Max(m, r)
    ELSE IF ~IsNaN(v) /\ v < 8 THEN \E r \in Ints(13 * H) : h = Min(r, 13)
    ELSE h = H

TruncatedOnly(x) == {Truncated(x)}

\* the entry bar whose barrier parameters the locals hold: the bar being
\* scanned, or the bar before i when the loop has moved on from a bar with ATR
HasEntry ==
    \/ pc \in {"for_j", "resolve"}
    \/ i > 0 /\ ~AtrMissing(df[i - 1].bar.atr)
Entry == IF pc \in {"for_j", "resolve"} THEN i ELSE i - 1

\* bar m touches none of the four barriers of entry bar e
Untouched(e, m) ==
    LET b == df[e].bar
        tm == SelectTpMult(cfg, CurrentTrend(b.trend_strength), CurrentVolRatio(b.vol_ratio))
        sm == cfg.sl_atr_mult
    IN  /\ 10 * df[m].bar.high < 10 * b.close + tm * b.atr
        /\ 10 * df[m].bar.low > 10 * b.close - sm * b.atr
        /\ 10 * df[m].bar.low > 10 * b.close - tm * b.atr
        /\ 10 * df[m].bar.high < 10 * b.close + sm * b.atr

\* the end-to-end example, in pips: entry bar e has close 1.1000 and ATR 0.0050
\* and is scanned with tp_mult 1.8 and sl_mult 1.0, so that tp_long is 1.1090
\* and sl_long 1.0950; the bar at offset 1 touches neither long barrier and
\* the bar at offset 2, inside the window, has high 1.1095
Example(e) ==
    /\ df[e].bar.close = 11000
    /\ df[e].bar.atr = 50
    /\ tp_mult = 18 /\ sl_mult = 10
    /\ tp_long = 110900 /\ sl_long = 109500
    /\ e + 2 <= LastOfWindow(e)
    /\ 10 * df[e + 1].bar.high < tp_long
    /\ 10 * df[e + 1].bar.low > sl_long
    /\ df[e + 2].bar.high = 11095

\* apply_triple_barrier_for_symbol has returned
Returned == pc \in {"labeled", "groupby"}

\* the label as a function of an entry bar b (its close, ATR and regime) and
\* of the <<high, low>> pairs w of the bars of its window, in time order
LocalLabel(b, w) ==
    LET tm == SelectTpMult(cfg, CurrentTrend(b.trend_strength), CurrentVolRatio(b.vol_ratio))
        sm == cfg.sl_atr_mult
        LongTp(k) == FGe(10 * w[k][1], FAdd(10 * b.close, FMul(tm, b.atr)))
        LongSl(k) == FLe(10 * w[k][2], FSub(10 * b.close, FMul(sm, b.atr)))
        ShortTp(k) == FLe(10 * w[k][2], FSub(10 * b.close, FMul(tm, b.atr)))
        ShortSl(k) == FGe(10 * w[k][1], FAdd(10 * b.close, FMul(sm, b.atr)))
        First(tp(_), sl(_)) ==
            LET touched == {k \in 1 .. Len(w) : tp(k) \/ sl(k)}
            IN  IF touched = {} THEN "none"
                ELSE LET k == CHOOSE k \in touched : \A m \in touched : k <= m
                     IN  IF tp(k) THEN "tp" ELSE "sl"
    IN  IF IsNaN(b.atr) \/ b.atr = 0 THEN 0
        ELSE LabelTable[First(LongTp, LongSl)][First(ShortTp, ShortSl)]

\* the <<high, low>> pairs of the bars k+1 .. k+horizon of frame f, as far as
\* the frame goes
WindowOf(f, k) ==
    LET h == SelectHorizon(cfg, CurrentVolRatio(f[k].bar.vol_ratio))
        last == Min(k + h, Len0(f) - 1)
    IN  [m \in 1 .. last - k |-> <<f[k + m].bar.high, f[k + m].bar.low>>]

\* every label of a returned frame is the local label of its bar
LabelsLocal(f, l) ==
    /\ DOMAIN l = DOMAIN f
    /\ \A k \in DOMAIN f : l[k] = LocalLabel(f[k].bar, WindowOf(f, k))

\* bar i - 1 has just been labeled by Resolve: labels[i - 1] # 0 is written
\* by Resolve alone, and i moves on with the next step
JustResolved == pc = "for_i" /\ i > 0 /\ labels[i - 1] # 0

----------------------------------------------------------------------------
(* C1: the forward scan of an entry bar i reads exactly the bars i+1, i+2, ...
   in increasing order, never bar i, never an index >= n and never an index
   beyond i + horizon. *)
C1_ScanReadsOnlyWindow ==
    \A k \in 1 .. Len(reads) :
        LET e == reads[k][1]
            r == reads[k][2]
        IN  /\ ~AtrMissing(df[e].bar.atr)
            /\ r # e
            /\ r >= e + 1
            /\ r < n
            /\ r <= e + HorizonOf(e)
            /\ r <= LastOfWindow(e)
            /\ IF k > 1 /\ reads[k - 1][1] = e
               THEN r = reads[k - 1][2] + 1
               ELSE r = e + 1

\* a finished run in which one scan stopped at i + horizon with bars left
\* after it, and another stopped at the end of the series
C1_Witness ==
    /\ pc = "labeled"
    /\ \E k \in 1 .. Len(reads) :
          /\ reads[k][2] = reads[k][1] + HorizonOf(reads[k][1])
          /\ reads[k][2] < n - 1
          /\ (k = Len(reads) \/ reads[k + 1][1] # reads[k][1])
    /\ \E k \in 1 .. Len(reads) :
          /\ reads[k][2] = n - 1
          /\ reads[k][2] < reads[k][1] + HorizonOf(reads[k][1])

(* C2: a pending hypothesis that meets a bar satisfying both its take-profit
   and its stop-loss condition is resolved as a take-profit hit at that bar. *)
C2_SameBarTakeProfitFirst ==
    [][(pc = "for_j" /\ j < end) =>
          /\ (hit_long = None /\ TouchesTpLong(j) /\ TouchesSlLong(j))
                => hit_long' = <<j, "tp">>
          /\ (hit_short = None /\ TouchesTpShort(j) /\ TouchesSlShort(j))
                => hit_short' = <<j, "tp">>]_vars

\* the scan resolved long and short as take-profit on one bar that also
\* satisfies both stop-loss conditions
C2_Witness ==
    /\ pc = "resolve"
    /\ hit_long = <<j, "tp">>
    /\ hit_short = <<j, "tp">>
    /\ TouchesSlLong(j) /\ TouchesSlShort(j)

(* C3: when the scan of an entry bar ends, each hypothesis holds the index and
   kind of the earliest bar of the window that touches one of its barriers,
   or None; a resolved hypothesis is not changed by a later bar of the scan. *)
C3_FirstTouchKept ==
    /\ [](pc = "resolve" =>
            /\ hit_long = FirstTouch(TouchesTpLong, TouchesSlLong)
            /\ hit_short = FirstTouch(TouchesTpShort, TouchesSlShort))
    /\ [][(pc = "for_j" /\ pc' \in {"for_j", "resolve"}) =>
            /\ hit_long # None => hit_long' = hit_long
            /\ hit_short # None => hit_short' = hit_short]_vars

\* long was stopped out on the first bar of the window, the scan went on for
\* short, and the next bar reaches the long take-profit
C3_Witness ==
    /\ pc = "resolve"
    /\ hit_long = <<i + 1, "sl">>
    /\ j = i + 2
    /\ TouchesTpLong(j)
    /\ hit_short = <<j, "sl">>

(* C4: the label written for an entry bar is +1 when the long score exceeds
   the short score, -1 when the short score exceeds the long score and 0 when
   they are equal, with take-profit = +1, stop-loss = -1, no hit = 0, in each
   of the nine combinations of outcomes. *)
C4_LabelTable ==
    [][pc = "resolve" =>
          /\ labels'[i] = LabelTable[Kind(hit_long)][Kind(hit_short)]
          /\ \A hl, hs \in {None} \cup ((0 .. MaxBars) \X {"tp", "sl"}) :
                ResolveLabel(hl, hs) = LabelTable[Kind(hl)][Kind(hs)]]_vars

\* a bar labeled -1 from a long stop-loss and no short hit
C4_Witness ==
    /\ JustResolved
    /\ labels[i - 1] = 0 - 1
    /\ Kind(hit_long) = "sl"
    /\ Kind(hit_short) = "none"

(* C5: a bar is labeled +1 only if the long hypothesis hit its take-profit,
   and -1 only if the short hypothesis hit its take-profit. *)
C5_WinnerHitTakeProfit ==
    JustResolved =>
        /\ labels[i - 1] = 1 => Kind(hit_long) = "tp"
        /\ labels[i - 1] = 0 - 1 => Kind(hit_short) = "tp"

(* C6: every signal is priced with the take-profit and stop-loss multiples
   that labeling applies to the same bar: tp_price / sl_price equal the
   tp_long / sl_long (LONG) or tp_short / sl_short (SHORT) of that bar. *)
C6_SignalPricedAsLabeled ==
    \A k \in 1 .. Len(signals) :
        LET s == signals[k]
            b == df[s.timestamp - 1].bar
            tm == SelectTpMult(cfg, CurrentTrend(b.trend_strength),
                               CurrentVolRatio(b.vol_ratio))
        IN  IF s.direction = "LONG"
            THEN /\ s.tp_price = BarrierAbove(b.close, tm, b.atr)
                 /\ s.sl_price = BarrierBelow(b.close, cfg.sl_atr_mult, b.atr)
            ELSE /\ s.tp_price = BarrierBelow(b.close, tm, b.atr)
                 /\ s.sl_price = BarrierAbove(b.close, cfg.sl_atr_mult, b.atr)

(* C7: prob >= threshold gives LONG with confidence prob, prob <= 1 - threshold
   gives SHORT with confidence 1 - prob, every other prob gives NONE and no
   signal. *)
C7_DirectionRule ==
    direction # "" =>
        /\ prob >= confidence_threshold => direction = "LONG" /\ confidence = prob
        /\ prob <= 100 - confidence_threshold
              => direction = "SHORT" /\ confidence = 100 - prob
        /\ (prob < confidence_threshold /\ prob > 100 - confidence_threshold)
              => direction = "NONE"

(* C7, amended: prob >= threshold gives LONG with confidence prob; otherwise
   prob <= 1 - threshold gives SHORT with confidence 1 - prob; every other
   prob gives NONE, and a NONE row appends no signal; every signal carries the
   direction and confidence of its prob_long. *)
C7_DirectionRuleElse ==
    /\ [](direction # "" =>
            /\ prob >= confidence_threshold => direction = "LONG" /\ confidence = prob
            /\ (prob < confidence_threshold /\ prob <= 100 - confidence_threshold)
                  => direction = "SHORT" /\ confidence = 100 - prob
            /\ (prob < confidence_threshold /\ prob > 100 - confidence_threshold)
                  => direction = "NONE")
    /\ [](\A k \in 1 .. Len(signals) :
            LET s == signals[k]
            IN  IF s.prob_long >= confidence_threshold
                THEN s.direction = "LONG" /\ s.confidence = s.prob_long
                ELSE /\ s.prob_long <= 100 - confidence_threshold
                     /\ s.direction = "SHORT"
                     /\ s.confidence = 100 - s.prob_long)
    /\ [][(pc = "for_idx" /\ direction' = "NONE") => signals' = signals]_vars

\* a SHORT signal at prob = 1 - threshold exactly, threshold above 0.5
C7_Witness ==
    /\ confidence_threshold > 50
    /\ direction = "SHORT"
    /\ prob = 100 - confidence_threshold
    /\ signals # <<>>
    /\ signals[Len(signals)].direction = "SHORT"
    /\ signals[Len(signals)].prob_long = prob
    /\ signals[Len(signals)].confidence = 100 - prob

(* C8: under an inconsistent configuration (confidence threshold <= 0.5, or
   min_horizon > max_horizon) no labeling run completes with labels and no
   signal is emitted. *)
C8_InconsistentConfigRejected ==
    ~ConfigConsistent(cfg, confidence_threshold) =>
        /\ pc = "labeled" => labels = <<>>
        /\ signals = <<>>

(* C9: a bar whose ATR is not finite and > 0 is skipped: labeling never scans
   for it and leaves its label 0, and no signal is emitted for it. *)
C9_InvalidAtrSkipped ==
    /\ \A k \in DOMAIN labels : ~ValidAtr(df[k].bar.atr) => labels[k] = 0
    /\ \A k \in 1 .. Len(reads) : ValidAtr(df[reads[k][1]].bar.atr)
    /\ \A k \in 1 .. Len(signals) : ValidAtr(signals[k].atr)

(* C10: a bar whose vol_ratio or trend_strength is NaN is skipped by labeling:
   its label is 0 whatever the bars after it. *)
C10_NaNRegimeSkipped ==
    \A k \in DOMAIN labels :
        (IsNaN(df[k].bar.vol_ratio) \/ IsNaN(df[k].bar.trend_strength)) => labels[k] = 0

(* C10, amended: a bar with ATR whose vol_ratio or trend_strength is NaN is
   not skipped.  It is scanned like any other bar, a NaN vol_ratio counting as
   1.0 (baseline horizon, no low-volatility take-profit) and a NaN
   trend_strength as 0.0 (no trend take-profit). *)
C10_NaNRegimeDefaults ==
    LET b == df[i].bar
    IN  (pc \in {"for_j", "resolve"}
         /\ (IsNaN(b.vol_ratio) \/ IsNaN(b.trend_strength))) =>
            /\ IsNaN(b.vol_ratio) =>
                  /\ horizon = cfg.max_horizon
                  /\ tp_mult = IF ~IsNaN(b.trend_strength) /\ b.trend_strength > 30
                               THEN 25 ELSE cfg.tp_atr_mult
            /\ (IsNaN(b.trend_strength) /\ ~IsNaN(b.vol_ratio)) =>
                  tp_mult = IF b.vol_ratio < 8 THEN 15 ELSE cfg.tp_atr_mult
            /\ tp_long = 10 * b.close + tp_mult * b.atr
            /\ tp_short = 10 * b.close - tp_mult * b.atr
            /\ pc = "resolve" => \E k \in 1 .. Len(reads) : reads[k] = <<i, i + 1>>

\* a bar with NaN vol_ratio and NaN trend_strength that got a non-zero label
C10_Witness ==
    /\ JustResolved
    /\ IsNaN(df[i - 1].bar.vol_ratio)
    /\ IsNaN(df[i - 1].bar.trend_strength)
    /\ labels[i - 1] # 0

(* C11: for every regime snapshot tp_mult is 2.5 when trend_strength > 30,
   also when vol_ratio < 0.8; else 1.5 when vol_ratio < 0.8; else the
   configured TP_ATR_MULT.  The stop-loss multiple is the configured
   SL_ATR_MULT in every regime, and the four barriers are entry +/- these
   multiples of the ATR. *)
C11_TakeProfitMultiple ==
    HasEntry =>
        LET b == df[Entry].bar
            strong == ~IsNaN(b.trend_strength) /\ b.trend_strength > 30
            calm == ~IsNaN(b.vol_ratio) /\ b.vol_ratio < 8
        IN  /\ tp_mult = IF strong THEN 25 ELSE IF calm THEN 15 ELSE cfg.tp_atr_mult
            /\ sl_mult = cfg.sl_atr_mult
            /\ tp_long = FAdd(10 * b.close, FMul(tp_mult, b.atr))
            /\ sl_long = FSub(10 * b.close, FMul(cfg.sl_atr_mult, b.atr))
            /\ tp_short = FSub(10 * b.close, FMul(tp_mult, b.atr))
            /\ sl_short = FAdd(10 * b.close, FMul(cfg.sl_atr_mult, b.atr))

\* the scan of an entry bar in a strong trend and low volatility runs with
\* the wide take-profit and the configured stop-loss
C11_Witness ==
    /\ pc = "resolve"
    /\ df[i].bar.trend_strength = 35
    /\ df[i].bar.vol_ratio = 7
    /\ tp_mult = 25
    /\ sl_mult = SL_ATR_MULT
    /\ tp_long = 10 * df[i].bar.close + 25 * df[i].bar.atr

(* C12: for every configured baseline H and floor, the horizon is
   max(floor, round(H * 0.5)) when vol_ratio > 1.5, max(floor, round(H * 0.7))
   when 1.2 < vol_ratio <= 1.5, min(round(H * 1.3), 13) when vol_ratio < 0.8,
   and H otherwise, round being rounding to the nearest integer (a product
   half-way between two integers may go either way). *)
C12_HorizonRounded ==
    HasEntry =>
        HorizonRule(cfg.max_horizon, cfg.min_horizon, df[Entry].bar.vol_ratio, horizon,
                    Nearest)

(* C12, amended: the same rule with each product truncated to its integer
   part instead of rounded: int(H * 0.5), int(H * 0.7), int(H * 1.3). *)
C12_HorizonTruncated ==
    HasEntry =>
        HorizonRule(cfg.max_horizon, cfg.min_horizon, df[Entry].bar.vol_ratio, horizon,
                    TruncatedOnly)

\* the scan of a low-volatility entry bar under baseline 3 runs with horizon 3:
\* 3 * 1.3 = 3.9, whose nearest integer is 4
C12_Witness ==
    /\ pc = "resolve"
    /\ cfg.max_horizon = 3
    /\ df[i].bar.vol_ratio = 7
    /\ horizon = 3
    /\ Nearest(13 * cfg.max_horizon) = {4}

(* C13: for every configuration (H, min-horizon), the horizon selected for a
   bar of vol_ratio 1.6 is at most the horizon the same configuration selects
   at vol_ratio 1.0, the trend being the same. *)
C13_HorizonNotIncreased ==
    (HasEntry /\ df[Entry].bar.vol_ratio = 16) =>
        horizon <= SelectHorizon(cfg, CurrentVolRatio(10))

(* C14: under a configuration with MIN_HORIZON_DAYS <= MAX_HORIZON_DAYS, the
   look-ahead horizon used for any bar lies between MIN_HORIZON_DAYS and
   MAX_HORIZON_DAYS inclusive (3 to 10 by default), whatever the vol_ratio. *)
C14_HorizonWithinConfiguredRange ==
    (HasEntry /\ cfg.min_horizon <= cfg.max_horizon) =>
        /\ cfg.min_horizon <= horizon
        /\ horizon <= cfg.max_horizon

(* C15: an entry bar with valid ATR whose window holds no bar with
   high >= tp_long, low <= sl_long, low <= tp_short or high >= sl_short is
   labeled 0, whatever the horizon and the length of the window: cut by the
   horizon, cut by the end of the series, or empty for the last bar. *)
C15_UntouchedWindowNeutral ==
    pc \in {"labeled", "groupby"} =>
        \A k \in DOMAIN labels :
            (/\ ValidAtr(df[k].bar.atr)
             /\ \A m \in k + 1 .. LastOfWindow(k) : Untouched(k, m))
                => labels[k] = 0

\* a labeled series of three bars: the window of bar 0 is bar 1 alone, which
\* touches nothing, and bar 2, beyond the horizon, is past every barrier of
\* bar 0; the window of bar 2 is empty
C15_Witness ==
    /\ pc = "labeled"
    /\ n = 3
    /\ ValidAtr(df[0].bar.atr) /\ ValidAtr(df[2].bar.atr)
    /\ HorizonOf(0) = 1
    /\ reads[1] = <<0, 1>>
    /\ Untouched(0, 1)
    /\ ~Untouched(0, 2)
    /\ labels[0] = 0
    /\ labels[1] # 0
    /\ labels[2] = 0

(* C16: if bar i+1 has high >= tp_long and low > sl_long, and no bar of the
   window touches a barrier of the short hypothesis, bar i is labeled +1. *)
C16_ImmediateHit ==
    [][(/\ pc = "resolve"
        /\ TouchesTpLong(i + 1)
        /\ ~TouchesSlLong(i + 1)
        /\ \A m \in i + 1 .. LastOfWindow(i) : ~TouchesTpShort(m) /\ ~TouchesSlShort(m))
           => labels'[i] = 1]_vars

\* a bar labeled +1 from a long take-profit on the next bar, short without a
\* hit: the take-profit (0.5 x ATR) lies nearer than the stop-loss (1.0 x ATR)
C16_Witness ==
    /\ JustResolved
    /\ labels[i - 1] = 1
    /\ hit_long = <<i, "tp">>
    /\ hit_short = None
    /\ 10 * df[i].bar.high >= tp_long
    /\ 10 * df[i].bar.low > sl_long

(* C17: in the end-to-end example the entry bar is labeled +1 with the long
   take-profit recorded at offset 2, for every low of the offset-2 bar and
   every offset-1 bar that touches neither long barrier. *)
C17_ExampleLongWins ==
    [][(pc = "resolve" /\ Example(i)) =>
          /\ hit_long = <<i + 2, "tp">>
          /\ labels'[i] = 1]_vars

(* C17, amended: in the end-to-end example the long take-profit is recorded at
   offset 2.  The entry bar is labeled +1 when the offset-2 bar's low stays
   above tp_short (1.0910) or the short hypothesis was already stopped out at
   offset 1 (high >= sl_short, 1.1050); when the short hypothesis is still
   pending and the offset-2 bar's low is at or below tp_short, both
   take-profits are hit on that bar and the label is 0. *)
C17_ExampleLongWinsUnlessShortWins ==
    [][(pc = "resolve" /\ Example(i)) =>
          /\ hit_long = <<i + 2, "tp">>
          /\ tp_short = 109100 /\ sl_short = 110500
          /\ IF 10 * df[i + 2].bar.low > tp_short \/ 10 * df[i + 1].bar.high >= sl_short
             THEN labels'[i] = 1
             ELSE labels'[i] = 0 /\ hit_short = <<i + 2, "tp">>]_vars

\* the example as the spec gives it: nothing is touched at offset 1, the bar
\* at offset 2 (high 1.1095, low 1.1000) takes the long side to its
\* take-profit and stops the short side out, and the entry bar is labeled +1
C17_Witness ==
    /\ pc = "for_i" /\ i > 0
    /\ Example(i - 1)
    /\ Untouched(i - 1, i)
    /\ df[i + 1].bar.low = 11000
    /\ hit_long = <<i + 1, "tp">>
    /\ hit_short = <<i + 1, "sl">>
    /\ labels[i - 1] = 1

(* C18: with confidence_threshold <= 0.5 the NONE branch is never taken:
   every evaluated row (its features are present) gets direction LONG or
   SHORT whatever its probability, and with a valid ATR it appends a signal
   of that direction. *)
C18_NoTradeZoneEmpty ==
    [][(pc = "for_idx" /\ rows # <<>> /\ confidence_threshold <= 50) =>
          /\ FeaturesPresent(df[Head(rows)].bar)
          /\ direction' \in {"LONG", "SHORT"}
          /\ ValidAtr(df[Head(rows)].bar.atr) =>
                /\ Len(signals') = Len(signals) + 1
                /\ signals'[Len(signals')].direction = direction'
                /\ signals'[Len(signals')].prob_long = prob'
                /\ signals'[Len(signals')].timestamp = df[Head(rows)].time]_vars

\* threshold 0.5 or less: a SHORT signal at probability 0.45, which lies in
\* the no-trade zone of the default threshold 0.7
C18_Witness ==
    /\ confidence_threshold <= 50
    /\ prob = 45
    /\ direction = "SHORT"
    /\ signals # <<>>
    /\ signals[Len(signals)].prob_long = 45
    /\ signals[Len(signals)].direction = "SHORT"
    /\ ValidAtr(signals[Len(signals)].atr)

(* C19: a symbol whose rows are not in ascending time order, or that has no
   row, makes its labeling run fail: apply_triple_barrier_for_symbol never
   returns a label column for it. *)
C19_MalformedSeriesRejected ==
    Returned => Len0(given) > 0 /\ Ascending(given)

(* C19, amended: rows that are not in ascending time order do not make the
   labeling run fail.  They are sorted by time before the scan and the sorted
   series is labeled: the returned frame holds the symbol's rows in ascending
   time order, with one label per row, and the scan only ever sees the sorted
   frame. *)
C19_UnsortedSeriesSortedAndLabeled ==
    /\ [](Returned =>
            /\ Ascending(df)
            /\ SameRows(df, given)
            /\ DOMAIN labels = DOMAIN df
            /\ out[Len(out)] = [df |-> df, label |-> labels])
    /\ [][(pc \in {"for_i", "for_j", "resolve"}) => df' = df /\ given' = given]_vars
    /\ [][(pc \in {"for_i", "for_j", "resolve"} /\ pc' \in {"for_i", "for_j", "resolve"})
              => Ascending(df')]_vars

\* a series handed in newest first has come back sorted, with a label that
\* its first bar owes to the bars after it in time
C19_Witness ==
    /\ Returned
    /\ Len0(given) >= 2
    /\ ~Ascending(given)
    /\ df # given
    /\ labels[0] # 0

(* C20: the label of bar i is a function of bar i's own close, ATR and regime
   values and of the high/low of bars i+1 .. i+horizon of the same symbol:
   bars before i, bars after i+horizon, the other symbol's bars and the order
   in which rows and symbols come leave it unchanged, and a frame returned
   earlier is not changed while another symbol is labeled. *)
C20_LabelIsLocal ==
    /\ [](Returned =>
            /\ LabelsLocal(df, labels)
            /\ \A q \in 1 .. Len(out) : LabelsLocal(out[q].df, out[q].label))
    /\ [][\A q \in 1 .. Len(out) : out'[q] = out[q]]_vars

\* two symbols have been labeled: the one labeled last was stored newest
\* first, its first bar has a non-zero label, and the other symbol's only bar
\* lies beyond both take-profits of that bar
C20_Witness ==
    /\ pc = "labeled"
    /\ Len(out) = 2
    /\ ~Ascending(given)
    /\ labels[0] # 0
    /\ Len0(out[1].df) = 1
    /\ out[1].df[0].bar.high = 11095 /\ out[1].df[0].bar.low = 10910
    /\ out[1].label[0] = 0

\* |x - e| for a finite e
FAbs(x) == IF IsNaN(x) THEN NaN ELSE IF IsInf(x) THEN PosInf ELSE IF x >= 0 THEN x ELSE 0 - x

\* num / den = r / 10 for floats num, den >= 0: inf / inf, 0 / 0 and every
\* quotient of a NaN are NaN, which equals nothing
QuotientIs(num, den, r) ==
    /\ IsFinite(num) /\ IsFinite(den)
    /\ den # 0
    /\ 10 * num = r * den

(* C21: every emitted signal carries risk_reward_ratio = tp_mult / sl_mult
   whatever its direction, and this value equals
   |tp_price - entry_price| / |entry_price - sl_price| of the same signal. *)
C21_RiskRewardMatchesPrices ==
    \A k \in 1 .. Len(signals) :
        LET s == signals[k]
        IN  /\ s.risk_reward_ratio * cfg.sl_atr_mult = 10 * cfg.tp_atr_mult
            /\ QuotientIs(FAbs(FSub(s.entry_price, s.tp_price)),
                          FAbs(FSub(s.entry_price, s.sl_price)),
                          s.risk_reward_ratio)

\* the scan of one entry bar run on its own from hit_long = hit_short = None:
\* bars k .. last against the barriers tp_long, sl_long, tp_short, sl_short of
\* bars4, with the break once both hypotheses are resolved
RECURSIVE FreshScan(_, _, _, _, _, _)
FreshScan(f, bars4, hl, hs, k, last) ==
    IF k > last \/ (hl # None /\ hs # None) THEN ResolveLabel(hl, hs)
    ELSE FreshScan(f, bars4,
                   CheckLong(hl, k, f[k].bar.high, f[k].bar.low, bars4[1], bars4[2]),
                   CheckShort(hs, k, f[k].bar.high, f[k].bar.low, bars4[3], bars4[4]),
                   k + 1, last)

\* the label of bar e of frame f under configuration c, computed for that bar
\* alone
FreshLabel(f, c, e) ==
    LET b == f[e].bar
        v == CurrentVolRatio(b.vol_ratio)
        tm == SelectTpMult(c, CurrentTrend(b.trend_strength), v)
        sm == SelectSlMult(c)
        bars4 == <<BarrierAbove(b.close, tm, b.atr), BarrierBelow(b.close, sm, b.atr),
                   BarrierBelow(b.close, tm, b.atr), BarrierAbove(b.close, sm, b.atr)>>
    IN  IF AtrMissing(b.atr) \/ WindowStart(e) >= Len0(f) THEN 0
        ELSE FreshScan(f, bars4, None, None, WindowStart(e),
                       WindowEnd(e, SelectHorizon(c, v), Len0(f)) - 1)

(* C22: labeling is deterministic.  Two runs of
   apply_triple_barrier_for_symbol on the same bars, regime values and
   configuration return the same label for every bar, and nothing carried
   from one bar's scan (hit_long, hit_short, horizon, tp_mult) reaches another
   bar's label: every scan starts from hit_long = hit_short = None, every
   label equals the label computed for that bar alone, and writing one bar's
   label leaves the others as they are. *)
C22_LabelingDeterministic ==
    /\ [](pc = "labeled" =>
            \A p, q \in 1 .. Len(out) :
                out[p].df = out[q].df => out[p].label = out[q].label)
    /\ [](Returned => \A k \in DOMAIN labels : labels[k] = FreshLabel(df, cfg, k))
    /\ [][(pc = "for_i" /\ pc' = "for_j") => hit_long' = None /\ hit_short' = None]_vars
    /\ [][pc = "resolve" => \A k \in DOMAIN labels \ {i} : labels'[k] = labels[k]]_vars

\* the same three bars have been labeled twice, once from rows stored oldest
\* first and once newest first; both runs gave the same labels: +1 for the
\* first bar, whose scan ended with two hits, and 0 for the second bar, whose
\* window is the flat last bar
C22_Witness ==
    /\ pc = "labeled"
    /\ Len(out) = 2
    /\ Len0(df) = 3
    /\ ~Ascending(given)
    /\ out[1].df = out[2].df
    /\ out[1].label = out[2].label
    /\ out[2].label[0] = 1
    /\ out[2].label[1] = 0
    /\ df[2].bar.high = 11000 /\ df[2].bar.low = 11000


\* one hypothesis scanned alone over the bars k .. last of the current frame,
\* every bar visited, no break
RECURSIVE LongAlone(_, _, _)
LongAlone(hit, k, last) ==
    IF k > last THEN hit
    ELSE LongAlone(CheckLong(hit, k, df[k].bar.high, df[k].bar.low, tp_long, sl_long),
                   k + 1, last)

RECURSIVE ShortAlone(_, _, _)
ShortAlone(hit, k, last) ==
    IF k > last THEN hit
    ELSE ShortAlone(CheckShort(hit, k, df[k].bar.high, df[k].bar.low, tp_short, sl_short),
                    k + 1, last)

\* the bars the scan of entry bar e has read so far
ReadsOf(e) == {reads[k][2] : k \in {q \in 1 .. Len(reads) : reads[q][1] = e}}

(* C23: early exit preserves the outcome.  The scan of an entry bar stops at
   the first bar after which both hypotheses are resolved, or at the end of
   the window, and the two first hits it ends with (so the pair of long and
   short outcomes) are those of each hypothesis scanned alone over the whole
   window with no early exit. *)
C23_EarlyExitPreservesOutcome ==
    /\ [](pc = "resolve" =>
            /\ hit_long = LongAlone(None, i + 1, LastOfWindow(i))
            /\ hit_short = ShortAlone(None, i + 1, LastOfWindow(i))
            /\ Outcome(hit_long) = Outcome(LongAlone(None, i + 1, LastOfWindow(i)))
            /\ Outcome(hit_short) = Outcome(ShortAlone(None, i + 1, LastOfWindow(i)))
            /\ ReadsOf(i) = i + 1 .. j
            /\ IF hit_long # None /\ hit_short # None
               THEN j = Max(hit_long[1], hit_short[1])
               ELSE j = LastOfWindow(i))
    /\ [][(pc = "for_j" /\ pc' = "for_j") =>
            /\ hit_long' = None \/ hit_short' = None
            /\ j' = j + 1 /\ j' <= LastOfWindow(i)]_vars

\* the scan stopped before the end of the window with both hypotheses
\* resolved, and a bar of the window it never read touches a barrier
C23_Witness ==
    /\ pc = "resolve"
    /\ ValidAtr(df[i].bar.atr)
    /\ hit_long # None /\ hit_short # None
    /\ j < LastOfWindow(i)
    /\ ~Untouched(i, j + 1)
    /\ j + 1 \notin ReadsOf(i)


\* the direction a backtest signal stands for
DirectionOfSignal(signal) ==
    IF signal = 1 THEN "LONG" ELSE IF signal = 0 - 1 THEN "SHORT" ELSE "NONE"

(* C24: the backtest and the live signal engine make the same trade decision:
   for every probability p and every confidence threshold t, t <= 0.5
   included, run_backtest trades LONG / SHORT / nothing exactly when
   generate_signals chooses LONG / SHORT / NONE. *)
C24_BacktestTradesAsSignalled ==
    /\ \A k \in DOMAIN probs :
          DirectionOfSignal(signals[k]) = SignalDirection(probs[k], confidence_threshold)
    /\ \A k \in 1 .. Len(trades) :
          trades[k].signal = SignalDirection(trades[k].prob, confidence_threshold)
    /\ pc = "done" =>
          Len(trades) = Cardinality({k \in DOMAIN probs :
                            SignalDirection(probs[k], confidence_threshold) # "NONE"})


\* the event at position q of the log is the start of a step, the failure of
\* a step (a return code other than 0, or an exception), the success of step k
IsStart(q) == log[q][1] = "start"
IsFailure(q) ==
    \/ log[q][1] = "raised"
    \/ log[q][1] = "returned" /\ log[q][3] # 0
IsSuccessOf(q, k) == log[q][1] = "returned" /\ log[q][2] = k /\ log[q][3] = 0

(* C25: run_pipeline.main runs the four steps strictly in the order fetch
   data, build features, build labels, generate signals; a step starts only
   after every earlier step returned success; when a step fails the process
   exits with code 1 and no later step is started; a failure of the database
   initialisation does not keep step 1 from running. *)
C25_PipelineOrdering ==
    /\ [](\A q \in 1 .. Len(log) :
            IsStart(q) =>
               /\ log[q][2] \in 1 .. Len(Steps)
               /\ \A k \in 1 .. log[q][2] - 1 : \E r \in 1 .. q - 1 : IsSuccessOf(r, k)
               /\ \A r \in 1 .. q - 1 : IsStart(r) => log[r][2] < log[q][2]
               /\ \A r \in 1 .. q - 1 : ~IsFailure(r))
    /\ []((\E q \in 1 .. Len(log) : IsFailure(q)) => pc = <<"exit">> /\ ret = <<1>>)
    /\ [](ret = <<0>> => \A k \in 1 .. Len(Steps) : \E r \in 1 .. Len(log) : IsSuccessOf(r, k))
    /\ [][pc = <<"init_database">> => pc' = <<"step", 1>>]_vars
    /\ [][pc = <<"step", 1>> => log' = Append(log, <<"start", 1>>)]_vars

\* the database could not be initialised, steps 1 and 2 succeeded, step 3
\* ended with return code 2: the process has exited with 1 and step 4 was
\* never started
C25_Witness ==
    /\ pc = <<"exit">>
    /\ ret = <<1>>
    /\ Len(log) = 7
    /\ log[1] = <<"init_database", "failed">>
    /\ SubSeq(log, 2, 7) = <<(<<"start", 1>>), (<<"returned", 1, 0>>),
                             (<<"start", 2>>), (<<"returned", 2, 0>>),
                             (<<"start", 3>>), (<<"returned", 3, 2>>)>>


\* the positions of the log at which a request was issued
RequestsAt == {q \in 1 .. Len(log) : log[q][1] = "request"}

(* C26: between any two HTTP requests issued through one AlphaVantageClient,
   as build_all_ohlcv issues them across the configured pairs, a failed pair
   included, a pause of pause_seconds occurs; a cache hit issues no request. *)
C26_PauseBetweenRequests ==
    /\ \A q1, q2 \in RequestsAt :
          q1 < q2 => \E q \in q1 + 1 .. q2 - 1 : log[q] = <<"sleep", args.pause_seconds>>
    /\ \A q \in RequestsAt : log[q][2] \notin {log[r][2] : r \in {x \in 1 .. Len(log) : log[x][1] = "cache"}}


(* C27: the split respects time.  Whenever split_train_val_test returns, for
   whatever dataset and val_start / test_start, each row is in exactly one of
   train, val and test (train: time < val_start; val: val_start <= time <
   test_start; test: time >= test_start), and every train time is earlier than
   every val time, which is earlier than every test time. *)
C27_TimeRespectingSplit ==
    pc = "returned" =>
        LET train_df == ret[1]
            val_df == ret[2]
            test_df == ret[3]
        IN  /\ \A k \in DOMAIN df :
                  /\ k \in DOMAIN train_df <=> df[k].time < args.val_start
                  /\ k \in DOMAIN val_df <=>
                        (args.val_start <= df[k].time /\ df[k].time < args.test_start)
                  /\ k \in DOMAIN test_df <=> df[k].time >= args.test_start
                  /\ Cardinality({part \in 1 .. 3 : k \in DOMAIN ret[part]}) = 1
            /\ \A part \in 1 .. 3 : \A k \in DOMAIN ret[part] :
                  k \in DOMAIN df /\ ret[part][k] = df[k]
            /\ \A a \in DOMAIN train_df, b \in DOMAIN val_df :
                  train_df[a].time < val_df[b].time
            /\ \A b \in DOMAIN val_df, c \in DOMAIN test_df :
                  val_df[b].time < test_df[c].time
            /\ \A a \in DOMAIN train_df, c \in DOMAIN test_df :
                  train_df[a].time < test_df[c].time

\* a split has returned with a row dated val_start in val and a row dated
\* test_start in test
C27_Witness ==
    /\ pc = "returned"
    /\ \E k \in DOMAIN ret[2] : ret[2][k].time = args.val_start
    /\ \E k \in DOMAIN ret[3] : ret[3][k].time = args.test_start
    /\ DOMAIN ret[1] # {}


\* x < y for two floats neither of which is NaN
FLess(x, y) ==
    /\ ~IsNaN(x) /\ ~IsNaN(y)
    /\ x # y
    /\ x = NegInf \/ y = PosInf \/ (IsFinite(x) /\ IsFinite(y) /\ x < y)

\* the row of df at position q has been through the row loop
Evaluated(q) ==
    /\ pc \in {"for_idx", "done"}
    /\ \E m \in 1 .. Len(SymbolRows(df, use_latest_only)) : SymbolRows(df, use_latest_only)[m] = q
    /\ \A m \in 1 .. Len(rows) : rows[m] # q

(* C28: in the list generate_signals builds, every signal has direction LONG
   or SHORT, no two signals are of the same bar and each is of a bar the loop
   has evaluated, its confidence is >= the confidence threshold, and with
   ATR > 0 a LONG signal has sl_price < entry_price < tp_price and a SHORT
   signal tp_price < entry_price < sl_price. *)
C28_SignalListInvariant ==
    \A k \in 1 .. Len(signals) :
        LET s == signals[k]
        IN  /\ s.direction \in {"LONG", "SHORT"}
            /\ \A m \in 1 .. Len(signals) : signals[m].timestamp = s.timestamp => m = k
            /\ \E q \in DOMAIN df : df[q].time = s.timestamp /\ Evaluated(q)
            /\ s.confidence >= confidence_threshold
            /\ FLess(0, s.atr) =>
                  /\ s.direction = "LONG" =>
                        FLess(s.sl_price, s.entry_price) /\ FLess(s.entry_price, s.tp_price)
                  /\ s.direction = "SHORT" =>
                        FLess(s.tp_price, s.entry_price) /\ FLess(s.entry_price, s.sl_price)

\* generate_signals has returned a LONG and a SHORT signal, both with ATR > 0
C28_Witness ==
    /\ pc = "done"
    /\ signals # <<>>
    /\ \E k, m \in 1 .. Len(signals) :
          /\ signals[k].direction = "LONG" /\ signals[m].direction = "SHORT"
          /\ FLess(0, signals[k].atr) /\ FLess(0, signals[m].atr)


\* frame f with every bar after entry bar e reflected about the entry price:
\* new high = 2 * entry - low, new low = 2 * entry - high
Mirror(f, e) ==
    [k \in DOMAIN f |->
        IF k > e
        THEN [f[k] EXCEPT !.bar.high = 2 * f[e].bar.close - f[k].bar.low,
                          !.bar.low = 2 * f[e].bar.close - f[k].bar.high]
        ELSE f[k]]

\* the two hypotheses of the current entry bar scanned over the bars
\* k .. last of frame f, with the current barriers
RECURSIVE LongOver(_, _, _, _)
LongOver(f, hit, k, last) ==
    IF k > last THEN hit
    ELSE LongOver(f, CheckLong(hit, k, f[k].bar.high, f[k].bar.low, tp_long, sl_long),
                  k + 1, last)

RECURSIVE ShortOver(_, _, _, _)
ShortOver(f, hit, k, last) ==
    IF k > last THEN hit
    ELSE ShortOver(f, CheckShort(hit, k, f[k].bar.high, f[k].bar.low, tp_short, sl_short),
                   k + 1, last)

(* C29: mirror symmetry of labeling.  Reflecting the bars after an entry bar
   about its entry price (new high = 2 * entry - low, new low = 2 * entry -
   high) swaps the first hits of the long and the short hypothesis, bar and
   barrier alike, and negates the label of the entry bar: +1 becomes -1, -1
   becomes +1, 0 stays 0. *)
C29_MirrorSymmetry ==
    /\ pc = "resolve" =>
          /\ LongOver(Mirror(df, i), None, WindowStart(i), LastOfWindow(i)) = hit_short
          /\ ShortOver(Mirror(df, i), None, WindowStart(i), LastOfWindow(i)) = hit_long
          /\ ResolveLabel(hit_short, hit_long) = 0 - ResolveLabel(hit_long, hit_short)
    /\ Returned =>
          \A k \in DOMAIN labels : FreshLabel(Mirror(df, k), cfg, k) = 0 - labels[k]

\* a labeled series with a bar labeled +1 whose next bar reaches further above
\* the entry price than below it; the label over the reflected bars is -1
C29_Witness ==
    /\ Returned
    /\ \E k \in DOMAIN labels :
          /\ labels[k] = 1
          /\ k + 1 \in DOMAIN df
          /\ df[k + 1].bar.high - df[k].bar.close > df[k].bar.close - df[k + 1].bar.low
          /\ FreshLabel(Mirror(df, k), cfg, k) = 0 - 1


\* the positions of log at which a JSON file was written
JsonWrites == {k \in 1 .. Len(log) : log[k][1] = "json"}

\* the positions of log at which the database was called
DatabaseCalls == {k \in 1 .. Len(log) : log[k][1] # "json"}

(* C30: persistence fallback of save_signals.  Whenever save_signals returns
   normally the signals have been written to one JSON file, whatever
   use_database, DATABASE_URL and the outcome of the database save; the
   database, when it is tried, is tried before the JSON file is written; and a
   failed database save does not keep the file from being written: the call
   ends without the file only when the file system refuses mkdir or open. *)
C30_JsonAlwaysWritten ==
    /\ pc = "returned" =>
          /\ log # <<>>
          /\ log[Len(log)] = <<"json", JsonPath(args.filepath), args.signals>>
          /\ JsonWrites = {Len(log)}
          /\ \A k \in DatabaseCalls : k < Len(log)
          /\ DatabaseCalls # {} =>
                args.use_database /\ env.DATABASE_URL /\ args.signals # <<>>
    /\ pc = "raised" => env.fs # "ok" /\ JsonWrites = {}

\* save_signals has returned after a database save that failed at the insert:
\* the two signals are in the default JSON file
C30_Witness ==
    /\ pc = "returned"
    /\ args.use_database /\ env.DATABASE_URL
    /\ Len(args.signals) = 2
    /\ \E k \in 1 .. Len(log) : log[k] = <<"insert", "failed">>
    /\ log[Len(log)] = <<"json", "signals_dir", args.signals>>


====
